---- MODULE Spec2Model ----
(***************************************************************************)
(* A state-machine model of two files of vLLM:                             *)
(*   vllm/distributed/kv_transfer/kv_connector/factory.py                  *)
(*       KVConnectorFactory: the connector registry and the factory        *)
(*   vllm/entrypoints/openai/serving_score.py                              *)
(*       ServingScores: the score and rerank endpoints                     *)
(* Spec      is the factory: register / resolve / create.                  *)
(* ScoreSpec is the serving layer: one score or rerank request per step.   *)
(* AsyncSpec is the serving layer with the scoring coroutine followed      *)
(*           through its await points: streams yield in any order, the     *)
(*           request can be cancelled at each of them.                    *)
(***************************************************************************)
EXTENDS Integers, Sequences, FiniteSets, TLC

VARIABLES
    registry,     \* KVConnectorFactory._registry: name -> loader closure
    useV1,        \* envs.VLLM_USE_V1
    loaderRuns,   \* per name, how many times its loader closure has executed
    nextId,       \* identity of the next object a constructor call allocates
    firstRes,     \* the first successful get_connector_class of the run
    last,         \* the last factory call: its arguments and its outcome
    scoreReq,     \* the last score / rerank request served
    encodeCalls,  \* engine_client.encode calls issued for that request
    response,     \* what create_score / do_rerank returned for it
    coro          \* the scoring coroutine of that request, followed step by step

vars == <<registry, useV1, loaderRuns, nextId, firstRes, last,
          scoreReq, encodeCalls, response, coro>>

factoryVars == <<registry, useV1, loaderRuns, nextId, firstRes, last>>
scoreVars   == <<scoreReq, encodeCalls, response, coro>>

None == "None"

(***************************************************************************)
(* Bounds of the model.                                                    *)
(***************************************************************************)
MaxLoaderRuns == 2   \* loader executions followed per name
MaxInstances  == 2   \* connector objects constructed per run
MaxDocs       == 3   \* documents (text pairs) of one score / rerank request
MaxStreams    == 4   \* encode streams of one request followed step by step

(***************************************************************************)
(* The importable world: what importlib.import_module and getattr find.    *)
(* A module is a function from attribute names to classes; a path that is  *)
(* not in the table cannot be imported.  import_module returns the same    *)
(* module object for the same path, so the table is constant.              *)
(***************************************************************************)
SimplePath  == "vllm.distributed.kv_transfer.kv_connector.simple_connector"
LMCachePath == "vllm.distributed.kv_transfer.kv_connector.lmcache_connector"
MStorePath  == "vllm.distributed.kv_transfer.kv_connector.mooncake_store_connector"
SharedPath  == "vllm.distributed.kv_transfer.kv_connector.v1.shared_storage_connector"
P2pPath     == "vllm.distributed.kv_transfer.kv_connector.v1.p2p.p2p_nccl_connector"
LMCacheV1Path == "vllm.distributed.kv_transfer.kv_connector.v1.lmcache_connector"
NixlPath    == "vllm.distributed.kv_transfer.kv_connector.v1.nixl_connector"
MultiPath   == "vllm.distributed.kv_transfer.kv_connector.v1.multi_connector"

\* A class object: its identity, the bases it derives from (KVConnectorBase
\* is the legacy V0 base, KVConnectorBase_V1 the current one) and the role
\* contracts it satisfies.
Class(id, v0, v1, sched, worker) ==
    [id |-> id, v0 |-> v0, v1 |-> v1, sched |-> sched, worker |-> worker]

\* No class, no object, no resolution yet.
NoClass == Class(None, FALSE, FALSE, FALSE, FALSE)
NoInst  == [id |-> 0, cls |-> None, args |-> <<>>]
NoRes   == [cfg |-> [kv_connector |-> None, kv_connector_module_path |-> None],
            registered |-> FALSE, cls |-> NoClass]

LegacyClass(id) == Class(id, TRUE, FALSE, FALSE, FALSE)
V1Class(id)     == Class(id, FALSE, TRUE, TRUE, TRUE)

sys_modules ==
    \* the in-tree modules the registrations at the end of factory.py name
       (SimplePath    :> ("SimpleConnector" :> LegacyClass("SimpleConnector")))
    @@ (LMCachePath   :> ("LMCacheConnector" :> LegacyClass("LMCacheConnector")))
    @@ (MStorePath    :> ("MooncakeStoreConnector" :> LegacyClass("MooncakeStoreConnector")))
    @@ (SharedPath    :> ("SharedStorageConnector" :> V1Class("SharedStorageConnector")))
    @@ (P2pPath       :> ("P2pNcclConnector" :> V1Class("P2pNcclConnector")))
    @@ (LMCacheV1Path :> ("LMCacheConnectorV1" :> V1Class("LMCacheConnectorV1")))
    @@ (NixlPath      :> ("NixlConnector" :> V1Class("NixlConnector")))
    @@ (MultiPath     :> ("MultiConnector" :> V1Class("MultiConnector")))
    \* module X: a user module holding one class of each kind
    @@ ("X" :> (   "Y" :> V1Class("X.Y")
                @@ "L" :> LegacyClass("X.L")
                @@ "S" :> Class("X.S", FALSE, TRUE, TRUE, FALSE)
                @@ "W" :> Class("X.W", FALSE, TRUE, FALSE, TRUE)))
    \* module ext: an out-of-tree plugin that defines Bar and nothing else
    @@ ("ext" :> ("Bar" :> V1Class("ext.Bar")))

\* importlib.import_module(path)
import_module(path) ==
    IF path \in DOMAIN sys_modules
    THEN [err |-> None, module |-> sys_modules[path]]
    ELSE [err |-> "ModuleNotFoundError", module |-> None]

\* getattr(module, name)
getattr(module, name) ==
    IF name \in DOMAIN module
    THEN [err |-> None, cls |-> module[name]]
    ELSE [err |-> "AttributeError", cls |-> NoClass]

\* issubclass(connector_cls, KVConnectorBase)
IsV0(c) == c.v0
\* Mutant of IsV1: the subclass assertion of create_connector_v1 left out.
IsV1_unchecked(c) == TRUE

\* issubclass(connector_cls, KVConnectorBase_V1)
IsV1(c) == c.v1

\* The role contracts of sections 4.2 and 4.3 of the specification.
SatisfiesRole(c, role) ==
    IF role = "SCHEDULER" THEN c.sched ELSE c.worker

(***************************************************************************)
(* Inputs.                                                                 *)
(***************************************************************************)
\* The classes a call can go through: the factory itself and a subclass
\* that declares nothing of its own.
FactoryClasses == {"KVConnectorFactory", "SubFactory"}

Names == {"Foo", "Bar"}

\* (module_path, class_name) pairs a registration names
RegTargets ==
    { <<"X", "Y">>, <<"X", "L">>, <<"X", "S">>, <<"X", "W">>, <<"X", "nope">> }

\* kv_transfer_config: kv_connector and kv_connector_module_path
Configs ==
    [kv_connector : Names, kv_connector_module_path : {None, "ext"}]

Roles == {"SCHEDULER", "WORKER"}

Entry(module_path, class_name) ==
    [module_path |-> module_path, class_name |-> class_name]

\* The registrations made when factory.py is imported.
Builtins ==
       ("PyNcclConnector"        :> Entry(SimplePath, "SimpleConnector"))
    @@ ("MooncakeConnector"      :> Entry(SimplePath, "SimpleConnector"))
    @@ ("LMCacheConnector"       :> Entry(LMCachePath, "LMCacheConnector"))
    @@ ("MooncakeStoreConnector" :> Entry(MStorePath, "MooncakeStoreConnector"))
    @@ ("SharedStorageConnector" :> Entry(SharedPath, "SharedStorageConnector"))
    @@ ("P2pNcclConnector"       :> Entry(P2pPath, "P2pNcclConnector"))
    @@ ("LMCacheConnectorV1"     :> Entry(LMCacheV1Path, "LMCacheConnectorV1"))
    @@ ("NixlConnector"          :> Entry(NixlPath, "NixlConnector"))
    @@ ("MultiConnector"         :> Entry(MultiPath, "MultiConnector"))

NoCall ==
    [op |-> "none", via |-> None, name |-> None, path |-> None, role |-> None,
     err |-> None, cls |-> NoClass, inst |-> NoInst]

(***************************************************************************)
(* KVConnectorFactory                                                      *)
(***************************************************************************)
\* cls._registry, for a call made through factory class `via`: the attribute
\* is declared once, on KVConnectorFactory, and a subclass that declares
\* nothing finds that same dict.
RegistryOf(via) == registry

\* The closure `loader` that register_connector stores: it imports the
\* module and looks the class up, each time it is called.
loader(entry) ==
    LET m == import_module(entry.module_path)
    IN  IF m.err # None
        THEN [err |-> m.err, cls |-> NoClass]
        ELSE getattr(m.module, entry.class_name)

\* get_connector_class: the class, or the error raised, and whether the
\* registered loader was executed.
get_connector_class(via, cfg) ==
    LET connector_name == cfg.kv_connector
    IN  IF connector_name \in DOMAIN RegistryOf(via)
        THEN [ran |-> TRUE] @@ loader(RegistryOf(via)[connector_name])
        ELSE LET connector_module_path == cfg.kv_connector_module_path
             IN  IF connector_module_path = None
                 THEN [ran |-> FALSE, cls |-> NoClass,
                       err |-> "ValueError: Unsupported connector type"]
                 ELSE LET m == import_module(connector_module_path)
                      IN  IF m.err # None
                          THEN [ran |-> FALSE, cls |-> NoClass, err |-> m.err]
                          ELSE [ran |-> FALSE]
                               @@ getattr(m.module, connector_name)

\* Bookkeeping of a get_connector_class call, made directly or from a
\* create_connector_*: the loader-execution count of the name, and the first
\* successful resolution of the run.
Resolved(via, cfg, res) ==
    /\ res.ran => loaderRuns[cfg.kv_connector] < MaxLoaderRuns
    /\ loaderRuns' =
          IF res.ran
          THEN [loaderRuns EXCEPT ![cfg.kv_connector] = @ + 1]
          ELSE loaderRuns
    /\ firstRes' =
          IF firstRes = NoRes /\ res.err = None
          THEN [cfg |-> cfg,
                registered |-> cfg.kv_connector \in DOMAIN RegistryOf(via),
                cls |-> res.cls]
          ELSE firstRes

\* The record of a resolve or create call.  The class it was made through is
\* kept for registrations only: the other calls only read cls._registry.
Call(op, via, cfg, role, err, cls, inst) ==
    [op |-> op, via |-> None, name |-> cfg.kv_connector,
     path |-> cfg.kv_connector_module_path, role |-> role,
     err |-> err, cls |-> cls, inst |-> inst]

\* Mutant of register_connector: the `name in cls._registry` check left
\* out, so that a second registration replaces the first.
register_overwrite(via, name, module_path, class_name) ==
    /\ registry' = [n \in DOMAIN registry \cup {name} |->
                        IF n = name THEN Entry(module_path, class_name)
                        ELSE registry[n]]
    /\ last' = [NoCall EXCEPT !.op = "register_connector",
                   !.via = via, !.name = name, !.path = module_path]
    /\ UNCHANGED <<useV1, loaderRuns, nextId, firstRes>>

\* register_connector(name, module_path, class_name), called on class `via`
register_connector(via, name, module_path, class_name) ==
    /\ IF name \in DOMAIN RegistryOf(via)
       THEN /\ registry' = registry
            /\ last' = [NoCall EXCEPT !.op = "register_connector",
                           !.via = via, !.name = name, !.path = module_path,
                           !.err = "ValueError: already registered"]
       ELSE /\ registry' = (name :> Entry(module_path, class_name)) @@ registry
            /\ last' = [NoCall EXCEPT !.op = "register_connector",
                           !.via = via, !.name = name, !.path = module_path]
    /\ UNCHANGED <<useV1, loaderRuns, nextId, firstRes>>

\* get_connector_class(kv_transfer_config), called directly
GetConnectorClass(via, cfg) ==
    LET res == get_connector_class(via, cfg)
    IN  /\ Resolved(via, cfg, res)
        /\ last' = Call("get_connector_class", via, cfg, None,
                        res.err, res.cls, NoInst)
        /\ UNCHANGED <<registry, useV1, nextId>>

\* connector_cls(rank, local_rank, config): a new object
NewV0(cls, rank, local_rank, cfg) ==
    [id |-> nextId, cls |-> cls.id, args |-> <<rank, local_rank, cfg>>]

\* Mutant of NewV1: one connector object per class, handed out again.
NewV1_singleton(cls, cfg, role) ==
    [id |-> 1, cls |-> cls.id, args |-> <<cfg, role>>]

\* connector_cls(config, role): a new object
NewV1(cls, cfg, role) ==
    [id |-> nextId, cls |-> cls.id, args |-> <<cfg, role>>]

\* create_connector_v0(rank, local_rank, config)
create_connector_v0(via, rank, local_rank, cfg) ==
    IF useV1
    THEN /\ last' = Call("create_connector_v0", via, cfg, None,
                         "ValueError: V0 connector under VLLM_USE_V1",
                         NoClass, NoInst)
         /\ UNCHANGED <<registry, useV1, loaderRuns, nextId, firstRes>>
    ELSE LET res == get_connector_class(via, cfg)
         IN  /\ Resolved(via, cfg, res)
             /\ IF res.err # None
                THEN /\ last' = Call("create_connector_v0", via, cfg, None,
                                     res.err, NoClass, NoInst)
                     /\ nextId' = nextId
                ELSE IF ~IsV0(res.cls)
                THEN /\ last' = Call("create_connector_v0", via, cfg, None,
                                     "AssertionError", res.cls, NoInst)
                     /\ nextId' = nextId
                ELSE /\ nextId <= MaxInstances
                     /\ last' = Call("create_connector_v0", via, cfg, None,
                                     None, res.cls,
                                     NewV0(res.cls, rank, local_rank, cfg))
                     /\ nextId' = nextId + 1
             /\ UNCHANGED <<registry, useV1>>

\* Mutant of create_connector_v1: the class is resolved first and the
\* runtime's version checked after it.
create_connector_v1_late_check(via, cfg, role) ==
    LET res == get_connector_class(via, cfg)
    IN  /\ Resolved(via, cfg, res)
        /\ IF ~useV1
           THEN /\ last' = Call("create_connector_v1", via, cfg, role,
                                "ValueError: V1 connector without VLLM_USE_V1",
                                NoClass, NoInst)
                /\ nextId' = nextId
           ELSE IF res.err # None
           THEN /\ last' = Call("create_connector_v1", via, cfg, role,
                                res.err, NoClass, NoInst)
                /\ nextId' = nextId
           ELSE IF ~IsV1(res.cls)
           THEN /\ last' = Call("create_connector_v1", via, cfg, role,
                                "AssertionError", res.cls, NoInst)
                /\ nextId' = nextId
           ELSE /\ nextId <= MaxInstances
                /\ last' = Call("create_connector_v1", via, cfg, role,
                                None, res.cls, NewV1(res.cls, cfg, role))
                /\ nextId' = nextId + 1
        /\ UNCHANGED <<registry, useV1>>

\* create_connector_v1(config, role)
create_connector_v1(via, cfg, role) ==
    IF ~useV1
    THEN /\ last' = Call("create_connector_v1", via, cfg, role,
                         "ValueError: V1 connector without VLLM_USE_V1",
                         NoClass, NoInst)
         /\ UNCHANGED <<registry, useV1, loaderRuns, nextId, firstRes>>
    ELSE LET res == get_connector_class(via, cfg)
         IN  /\ Resolved(via, cfg, res)
             /\ IF res.err # None
                THEN /\ last' = Call("create_connector_v1", via, cfg, role,
                                     res.err, NoClass, NoInst)
                     /\ nextId' = nextId
                ELSE IF ~IsV1(res.cls)
                THEN /\ last' = Call("create_connector_v1", via, cfg, role,
                                     "AssertionError", res.cls, NoInst)
                     /\ nextId' = nextId
                ELSE /\ nextId <= MaxInstances
                     /\ last' = Call("create_connector_v1", via, cfg, role,
                                     None, res.cls, NewV1(res.cls, cfg, role))
                     /\ nextId' = nextId + 1
             /\ UNCHANGED <<registry, useV1>>

\* No request has reached the serving layer.
NoRequest  == [kind |-> None]
NoResponse == [type |-> None]

\* No output of a stream, no exception, no scoring coroutine.
NoOutput == [item |-> 0, score |-> 0]
NoExc    == [type |-> None, msg |-> None]
NoCoro   == [pc |-> "idle", open |-> {}, slots |-> <<>>, out |-> <<>>,
             returned |-> FALSE, exc |-> NoExc]

ScoreInit ==
    /\ scoreReq = NoRequest
    /\ encodeCalls = <<>>
    /\ response = NoResponse
    /\ coro = NoCoro

FactoryInit ==
    /\ registry = Builtins
    /\ loaderRuns = [n \in Names |-> 0]
    /\ nextId = 1
    /\ firstRes = NoRes
    /\ last = NoCall

Init ==
    /\ FactoryInit
    /\ useV1 \in BOOLEAN
    /\ ScoreInit

Register ==
    /\ \E via \in FactoryClasses, name \in Names, t \in RegTargets :
          register_connector(via, name, t[1], t[2])
    /\ UNCHANGED scoreVars

Resolve ==
    /\ \E via \in FactoryClasses, cfg \in Configs :
          GetConnectorClass(via, cfg)
    /\ UNCHANGED scoreVars

CreateV0 ==
    /\ \E via \in FactoryClasses, cfg \in Configs :
          create_connector_v0(via, 0, 0, cfg)
    /\ UNCHANGED scoreVars

CreateV1 ==
    /\ \E via \in FactoryClasses, cfg \in Configs, role \in Roles :
          create_connector_v1(via, cfg, role)
    /\ UNCHANGED scoreVars

Next == Register \/ Resolve \/ CreateV0 \/ CreateV1

Spec == Init /\ [][Next]_vars

(***************************************************************************)
(* Properties of the factory, checked under Spec.                          *)
(***************************************************************************)
\* The kv_transfer_config of the last resolve or create call.
LastCfg ==
    [kv_connector |-> last.name, kv_connector_module_path |-> last.path]

\* The class a registry entry names, when its module has it.
EntryHasClass(entry) ==
    /\ entry.module_path \in DOMAIN sys_modules
    /\ entry.class_name \in DOMAIN sys_modules[entry.module_path]

EntryClass(entry) == sys_modules[entry.module_path][entry.class_name]

\* C1: a registration of a name already in the registry fails and leaves
\* the registry as it was; a registration of a new name succeeds and adds
\* that one entry; no step replaces or removes an entry.
C1_RegisterOnce ==
    [][ /\ \A n \in DOMAIN registry :
              n \in DOMAIN registry' /\ registry'[n] = registry[n]
        /\ last'.op = "register_connector" =>
              IF last'.name \in DOMAIN registry
              THEN /\ last'.err = "ValueError: already registered"
                   /\ registry' = registry
              ELSE /\ last'.err = None
                   /\ DOMAIN registry' = DOMAIN registry \cup {last'.name}
                   /\ registry'[last'.name].module_path = last'.path
      ]_vars

\* C1 witness: two distinct names are registered and a registration of a
\* name already present has just failed.
C1_Witness ==
    /\ {"Foo", "Bar"} \subseteq DOMAIN registry
    /\ last.op = "register_connector"
    /\ last.err = "ValueError: already registered"

\* C2 as claimed: the loader of a name executes at most once per name.
C2_LoaderAtMostOnce ==
    \A n \in Names : loaderRuns[n] <= 1

\* C3 as claimed: get_connector_class returns the registered class for a
\* registered name, else the class of the external module, and fails with
\* the unsupported-connector error whenever neither yields a class.
C3_Resolution ==
    last.op = "get_connector_class" =>
        IF last.name \in DOMAIN registry
        THEN EntryHasClass(registry[last.name]) =>
                 /\ last.err = None
                 /\ last.cls = EntryClass(registry[last.name])
        ELSE IF /\ last.path \in DOMAIN sys_modules
                /\ last.name \in DOMAIN sys_modules[last.path]
        THEN /\ last.err = None
             /\ last.cls = sys_modules[last.path][last.name]
        ELSE last.err = "ValueError: Unsupported connector type"

\* The class the last call's config resolves to in the current registry
\* (a resolve or create call leaves the registry as it was).
LastResolution == get_connector_class("KVConnectorFactory", LastCfg)

LegacyOnly(c)  == c # NoClass /\ c.v0 /\ ~c.v1
CurrentOnly(c) == c # NoClass /\ c.v1 /\ ~c.v0

\* C4: create_connector_v1 under a V1 runtime with a class that derives
\* from the legacy base only fails, and so does create_connector_v0 under a
\* legacy runtime with a class that derives from the V1 base only; the
\* failure is that of the issubclass assertion and no object is constructed.
C4_VersionMismatch ==
    [][ /\ ( /\ last'.op = "create_connector_v1"
             /\ useV1
             /\ LegacyOnly(LastResolution'.cls) )
           => /\ last'.err = "AssertionError"
              /\ last'.inst = NoInst
              /\ nextId' = nextId
        /\ ( /\ last'.op = "create_connector_v0"
             /\ ~useV1
             /\ CurrentOnly(LastResolution'.cls) )
           => /\ last'.err = "AssertionError"
              /\ last'.inst = NoInst
              /\ nextId' = nextId
      ]_vars

\* C4 witness: under the V1 runtime, create_connector_v1 for a name
\* registered to the legacy class X.L has failed.
C4_Witness ==
    /\ useV1
    /\ last.op = "create_connector_v1"
    /\ last.name = "Foo"
    /\ "Foo" \in DOMAIN registry
    /\ registry["Foo"] = Entry("X", "L")
    /\ last.err = "AssertionError"

\* C5: a successful create_connector_v1 for a registered name returns an
\* object of the registered class, constructed with (config, role), whose
\* identity is that of no object constructed before.
C5_FreshInstance ==
    [][ (last'.op = "create_connector_v1" /\ last'.err = None) =>
           /\ last'.name \in DOMAIN registry =>
                 last'.inst.cls = EntryClass(registry[last'.name]).id
           /\ last'.inst.args = <<LastCfg', last'.role>>
           /\ last'.inst.id = nextId
           /\ nextId' = nextId + 1
      ]_vars

\* C5 witness: the second object constructed, of class Y of module X, for a
\* name registered to it.
C5_Witness ==
    /\ last.op = "create_connector_v1"
    /\ last.err = None
    /\ last.name = "Foo"
    /\ last.inst.cls = "X.Y"
    /\ last.inst.id = 2
    /\ last.inst.args = <<LastCfg, "WORKER">>

\* C6 as claimed: create_connector_v1 constructs an object only of a class
\* that satisfies the contract of the requested role.
C6_RoleChecked ==
    (last.op = "create_connector_v1" /\ last.inst # NoInst) =>
        SatisfiesRole(last.cls, last.role)

\* C7: a call that resolves the config of the first resolution of the run,
\* with the name registered or not as it was then, yields the class the
\* first resolution yielded.
C7_StableResolution ==
    ( /\ last.op \in {"get_connector_class", "create_connector_v0",
                      "create_connector_v1"}
      /\ last.cls # NoClass
      /\ LastCfg = firstRes.cfg
      /\ (last.name \in DOMAIN registry) = firstRes.registered )
    => last.cls = firstRes.cls

\* C7 witness: the config resolved first is resolved again by a direct call,
\* the loader of its name running a second time, after both names were
\* registered.
C7_Witness ==
    /\ last.op = "get_connector_class"
    /\ last.err = None
    /\ LastCfg = firstRes.cfg
    /\ firstRes.registered
    /\ loaderRuns[last.name] = 2
    /\ {"Foo", "Bar"} \subseteq DOMAIN registry

\* C9 as claimed: a name registered through one factory class is not in the
\* registry any other factory class sees.
C9_IndependentRegistries ==
    (last.op = "register_connector" /\ last.err = None) =>
        \A f \in FactoryClasses \ {last.via} :
            last.name \notin DOMAIN RegistryOf(f)

\* C11: create_connector_v0 under a V1 runtime, and create_connector_v1
\* under a legacy runtime, fail with the version ValueError before
\* get_connector_class runs: no loader is executed, no resolution is made
\* (so no module is imported), no object is constructed and the registry is
\* as it was.
C11_VersionCheckFirst ==
    [][ ( \/ (last'.op = "create_connector_v0" /\ useV1)
          \/ (last'.op = "create_connector_v1" /\ ~useV1) )
        => /\ last'.err = IF last'.op = "create_connector_v0"
                          THEN "ValueError: V0 connector under VLLM_USE_V1"
                          ELSE "ValueError: V1 connector without VLLM_USE_V1"
           /\ last'.cls = NoClass
           /\ last'.inst = NoInst
           /\ loaderRuns' = loaderRuns
           /\ firstRes' = firstRes
           /\ nextId' = nextId
           /\ registry' = registry
      ]_vars

\* C11 witness: under a legacy runtime, create_connector_v1 has failed for a
\* name registered to the V1 class X.Y, whose loader has never run, in a run
\* that has resolved nothing.
C11_Witness ==
    /\ ~useV1
    /\ last.op = "create_connector_v1"
    /\ last.err = "ValueError: V1 connector without VLLM_USE_V1"
    /\ last.name = "Foo"
    /\ "Foo" \in DOMAIN registry
    /\ registry["Foo"] = Entry("X", "Y")
    /\ loaderRuns["Foo"] = 0
    /\ firstRes = NoRes

(***************************************************************************)
(* ServingScores                                                           *)
(* Strings that the code builds are sequences of characters; texts,        *)
(* documents and pooling parameters are opaque values.                     *)
(***************************************************************************)
DigitChars == <<"0", "1", "2", "3", "4", "5", "6", "7", "8", "9">>

\* str(i) of a non-negative integer: its decimal numeral
RECURSIVE Str(_)
Str(i) ==
    IF i < 10 THEN <<DigitChars[i + 1]>>
    ELSE Str(i \div 10) \o <<DigitChars[(i % 10) + 1]>>

\* Mutant of ItemId: the item index left out of the id.
ItemId_noindex(request_id, i) == request_id \o <<"-">>

\* f"{request_id}-{i}"
ItemId(request_id, i) == request_id \o <<"-">> \o Str(i)

\* f"score-{base}" and f"rerank-{base}", base from _base_request_id
RequestId(req) ==
    IF req.kind = "rerank"
    THEN <<"r", "e", "r", "a", "n", "k", "-">> \o req.base
    ELSE <<"s", "c", "o", "r", "e", "-">> \o req.base

\* A value of type Union[list, str, ScoreMultiModalParam]: its Python type
\* and the value; a ScoreMultiModalParam is a dict with the key "content".
PyStr(text)   == [type |-> "str",  value |-> <<text>>]
PyList(items) == [type |-> "list", value |-> items]
PyDict(items) == [type |-> "dict", value |-> [content |-> items]]

\* len(x) of a list or of a dict (its number of keys)
PyLen(x) ==
    IF x.type = "dict" THEN Cardinality(DOMAIN x.value) ELSE Len(x.value)

\* _run_scoring's normalisation of data_1 / data_2 to a list
AsList(x) ==
    IF x.type = "dict" THEN x.value.content ELSE x.value

\* The prompts given to the engine and the number of scored pairs.
\* _cross_encoding_score: one prompt per pair of zip(data_1, data_2), data_1
\* repeated when it has one element.  _embedding_score: one prompt per text
\* of texts_1 + texts_2.
EnginePrompts(req) ==
    LET d1 == AsList(req.data_1)
        d2 == AsList(req.data_2)
    IN  IF req.is_cross_encoder
        THEN [i \in 1..Len(d2) |->
                 <<IF Len(d1) = 1 THEN d1[1] ELSE d1[i], d2[i]>>]
        ELSE [i \in 1..(Len(d1) + Len(d2)) |->
                 IF i <= Len(d1) THEN <<d1[i]>> ELSE <<d2[i - Len(d1)]>>]

\* request.to_pooling_params()
to_pooling_params(req) == [source |-> req.kind]

\* The encode calls of the loop over enumerate(engine_prompts)
EncodeLoop(req) ==
    LET prompts == EnginePrompts(req)
    IN  [k \in 1..Len(prompts) |->
            [prompt |-> prompts[k],
             pooling_params |-> to_pooling_params(req),
             request_id |-> ItemId(RequestId(req), k - 1),
             lora_request |-> None,
             priority |-> req.priority]]

\* final_res_batch: one output per pair, in input order, each stream having
\* yielded its output; output i carries the engine's score for pair i.
FinalResBatch(req) ==
    [i \in 1..Len(AsList(req.data_2)) |-> [score |-> req.scores[i]]]

create_error_response(message) == [type |-> "error", message |-> message]

\* _run_scoring, then _cross_encoding_score or _embedding_score: the encode
\* calls issued and the list returned, or the error returned or raised.
RunScoring(req) ==
    IF /\ ~req.is_multimodal_model
       /\ (req.data_1.type = "dict" \/ req.data_2.type = "dict")
    THEN [calls |-> <<>>, out |-> <<>>,
          err |-> "MultiModalParam is not supported"]
    ELSE IF ~req.verify_ok
    THEN [calls |-> <<>>, out |-> <<>>, err |-> "pooling_params.verify"]
    ELSE [calls |-> EncodeLoop(req), out |-> FinalResBatch(req),
          err |-> None]

\* results.sort(key=lambda x: x.relevance_score, reverse=True): a stable
\* sort, equal scores keep their order.
RECURSIVE InsertDesc(_, _)
InsertDesc(sorted, r) ==
    IF sorted = <<>> THEN <<r>>
    ELSE IF Head(sorted).relevance_score >= r.relevance_score
         THEN <<Head(sorted)>> \o InsertDesc(Tail(sorted), r)
         ELSE <<r>> \o sorted

RECURSIVE SortDesc(_)
SortDesc(results) ==
    IF results = <<>> THEN <<>>
    ELSE InsertDesc(SortDesc(SubSeq(results, 1, Len(results) - 1)),
                    results[Len(results)])

\* do_rerank's top_n: the request's when positive, else the document count
RerankTopN(req) ==
    IF req.top_n > 0 THEN req.top_n
    ELSE IF req.data_2.type = "list" THEN Len(req.data_2.value)
         ELSE Len(req.data_2.value.content)

\* request_output_to_rerank_response
request_output_to_rerank_response(final_res_batch, documents, top_n) ==
    LET results ==
            [k \in 1..Len(final_res_batch) |->
                [index |-> k - 1,
                 document |-> IF documents.type = "list"
                              THEN documents.value[k]
                              ELSE documents.value.content[k],
                 relevance_score |-> final_res_batch[k].score]]
        sorted == SortDesc(results)
    IN  [type |-> "rerank",
         results |-> IF top_n < PyLen(documents)
                     THEN SubSeq(sorted, 1, top_n)
                     ELSE sorted]

\* request_output_to_score_response
request_output_to_score_response(final_res_batch) ==
    [type |-> "score",
     data |-> [k \in 1..Len(final_res_batch) |->
                  [index |-> k - 1, score |-> final_res_batch[k].score]]]

\* do_rerank(request)
do_rerank(req) ==
    LET run == RunScoring(req)
    IN  /\ encodeCalls' = run.calls
        /\ response' =
              IF run.err # None THEN create_error_response(run.err)
              ELSE request_output_to_rerank_response(
                       run.out, req.data_2, RerankTopN(req))

\* create_score(request)
create_score(req) ==
    LET run == RunScoring(req)
    IN  /\ encodeCalls' = run.calls
        /\ response' =
              IF run.err # None THEN create_error_response(run.err)
              ELSE request_output_to_score_response(run.out)

(***************************************************************************)
(* Requests: the request, the model configuration it meets and the scores  *)
(* the engine gives its pairs.                                             *)
(***************************************************************************)
BaseIds   == { <<"a">>, <<"7", "-", "1">> }
ScoreVals == {1, 2}
DocPool   == <<"d0", "d1", "d2", "d3", "d4", "d5">>
TextPool  == <<"t0", "t1", "t2", "t3", "t4", "t5">>

Docs(n)  == SubSeq(DocPool, 1, n)
Texts(n) == SubSeq(TextPool, 1, n)

Request(kind, base, data_1, data_2, top_n, priority, scores, cross, mm, ok) ==
    [kind |-> kind, base |-> base, data_1 |-> data_1, data_2 |-> data_2,
     top_n |-> top_n, priority |-> priority, scores |-> scores,
     is_cross_encoder |-> cross, is_multimodal_model |-> mm,
     verify_ok |-> ok]

\* query is a string; documents a list or a ScoreMultiModalParam
RerankRequests ==
    { Request("rerank", base, PyStr("q"), docs, top_n, priority, scores,
              cross, mm, ok) :
        base \in BaseIds,
        docs \in UNION { {PyList(Docs(n)), PyDict(Docs(n))} : n \in 1..MaxDocs },
        top_n \in -1..(MaxDocs + 1), priority \in {0, 1},
        scores \in [1..MaxDocs -> ScoreVals],
        cross \in BOOLEAN, mm \in BOOLEAN, ok \in BOOLEAN }

\* text_1 is a string or a list as long as text_2; the request has no top_n
ScoreRequests ==
    { Request("score", base, t1, PyList(Docs(n)), 0, priority, scores,
              cross, FALSE, ok) :
        base \in BaseIds, n \in 1..MaxDocs,
        t1 \in {PyStr("q")} \cup { PyList(Texts(m)) : m \in 1..MaxDocs },
        priority \in {0, 1}, scores \in [1..MaxDocs -> ScoreVals],
        cross \in BOOLEAN, ok \in BOOLEAN }

\* _validate_score_input_lens: 1:1, 1:N or N:N, and no empty side
ValidLens(req) ==
    LET n1 == Len(AsList(req.data_1))
        n2 == Len(AsList(req.data_2))
    IN  n1 >= 1 /\ n2 >= 1 /\ (n1 = 1 \/ n1 = n2)

\* The scores of the pairs the request has; the rest are not used.
Trimmed(req) ==
    \A i \in 1..MaxDocs : i > Len(AsList(req.data_2)) => req.scores[i] = 1

ScoreSpecInit ==
    /\ FactoryInit
    /\ useV1 = TRUE
    /\ scoreReq \in { r \in RerankRequests \cup ScoreRequests :
                        ValidLens(r) /\ Trimmed(r) }
    /\ encodeCalls = <<>>
    /\ response = NoResponse
    /\ coro = NoCoro

DoRerank ==
    /\ scoreReq.kind = "rerank"
    /\ response = NoResponse
    /\ do_rerank(scoreReq)
    /\ UNCHANGED <<scoreReq, coro, factoryVars>>

CreateScore ==
    /\ scoreReq.kind = "score"
    /\ response = NoResponse
    /\ create_score(scoreReq)
    /\ UNCHANGED <<scoreReq, coro, factoryVars>>

ScoreNext == DoRerank \/ CreateScore

ScoreSpec == ScoreSpecInit /\ [][ScoreNext]_vars

(***************************************************************************)
(* Properties of the serving layer, checked under ScoreSpec.               *)
(***************************************************************************)
Min(a, b) == IF a <= b THEN a ELSE b

\* The number a decimal numeral denotes.
RECURSIVE DecimalValue(_)
DecimalValue(numeral) ==
    IF numeral = <<>> THEN 0
    ELSE 10 * DecimalValue(SubSeq(numeral, 1, Len(numeral) - 1))
         + (CHOOSE d \in 0..9 : DigitChars[d + 1] = numeral[Len(numeral)])

IsNumeral(numeral) ==
    /\ numeral # <<>>
    /\ \A k \in 1..Len(numeral) : \E d \in 0..9 : DigitChars[d + 1] = numeral[k]

\* C8 as claimed: a rerank response lists its results by non-increasing
\* relevance score, min(top_n, N) of them when top_n > 0 and all N
\* otherwise, for a list of documents and for a multimodal parameter alike,
\* each with the index of its document in the request.
C8_RerankResponse ==
    response.type = "rerank" =>
        LET docs == AsList(scoreReq.data_2)
            rs   == response.results
        IN  /\ \A k \in 1..(Len(rs) - 1) :
                   rs[k].relevance_score >= rs[k + 1].relevance_score
            /\ Len(rs) = IF scoreReq.top_n > 0
                         THEN Min(scoreReq.top_n, Len(docs))
                         ELSE Len(docs)
            /\ \A k \in 1..Len(rs) : rs[k].document = docs[rs[k].index + 1]

\* C10: a request that is answered with a result has issued one encode
\* call per engine prompt (one per pair for a cross-encoder, one per text
\* otherwise), call i with the id "<request_id>-<i>", the request's pooling
\* parameters and its priority, the ids pairwise distinct; a request that is
\* answered with an error, as one whose pooling parameters fail verification
\* is, has issued none.
C10_EncodeCalls ==
    LET rid == RequestId(scoreReq)
        n1  == Len(AsList(scoreReq.data_1))
        n2  == Len(AsList(scoreReq.data_2))
    IN  /\ (response.type # None /\ ~scoreReq.verify_ok) =>
               response.type = "error"
        /\ response.type = "error" => encodeCalls = <<>>
        /\ response.type \in {"score", "rerank"} =>
              /\ Len(encodeCalls) =
                     IF scoreReq.is_cross_encoder THEN n2 ELSE n1 + n2
              /\ \A k \in 1..Len(encodeCalls) :
                    LET id == encodeCalls[k].request_id
                    IN  /\ Len(id) >= Len(rid) + 2
                        /\ SubSeq(id, 1, Len(rid)) = rid
                        /\ id[Len(rid) + 1] = "-"
                        /\ IsNumeral(SubSeq(id, Len(rid) + 2, Len(id)))
                        /\ DecimalValue(SubSeq(id, Len(rid) + 2, Len(id)))
                               = k - 1
                        /\ encodeCalls[k].pooling_params
                               = to_pooling_params(scoreReq)
                        /\ encodeCalls[k].priority = scoreReq.priority
              /\ \A j, k \in 1..Len(encodeCalls) :
                    j # k => encodeCalls[j].request_id
                                 # encodeCalls[k].request_id

\* C10 witness: a rerank of three documents by an embedding model, answered
\* with a result after four encode calls of priority 1.
C10_Witness ==
    /\ response.type = "rerank"
    /\ ~scoreReq.is_cross_encoder
    /\ Len(AsList(scoreReq.data_2)) = 3
    /\ Len(encodeCalls) = 4
    /\ scoreReq.priority = 1
    /\ encodeCalls[4].priority = 1

(***************************************************************************)
(* ServingScores, the scoring coroutine step by step.                      *)
(* coro.pc:  "start"      inside the try block, before the encode loop     *)
(*           "streaming"  in `async for i, res in result_generator`        *)
(*           "done"       create_score / do_rerank has returned or raised  *)
(* coro.open     the encode streams that have not ended                    *)
(* coro.slots    final_res_batch (embeddings): one slot per engine prompt  *)
(* coro.out      the list the scoring method returned, if it returned one  *)
(* coro.exc      the exception raised inside the try block, if any         *)
(***************************************************************************)
Exc(type, msg) == [type |-> type, msg |-> msg]

\* Mutant of HandleException: the `except asyncio.CancelledError` clause
\* left out.
HandleException_nocancel(exc) ==
    IF exc.type = "ValueError"
    THEN create_error_response(exc.msg)
    ELSE [type |-> "raised", exc |-> exc.type]

\* The except clauses of create_score and do_rerank: what the call returns
\* for an exception raised inside the try block, or that it propagates.
HandleException(exc) ==
    IF exc.type = "CancelledError"
    THEN create_error_response("Client disconnected")
    ELSE IF exc.type = "ValueError"
    THEN create_error_response(exc.msg)
    ELSE [type |-> "raised", exc |-> exc.type]

\* _run_scoring raises ValueError for a ScoreMultiModalParam on a model that
\* is not multimodal.
RaisesValueError(req) ==
    /\ ~req.is_multimodal_model
    /\ (req.data_1.type = "dict" \/ req.data_2.type = "dict")

\* The output stream i yields: it carries which engine prompt it is of and,
\* for a cross-encoder, the engine's score of that pair.
Output(req, i) ==
    [item |-> i, score |-> IF req.is_cross_encoder THEN req.scores[i] ELSE 0]

\* final_res_batch[i] = res (embeddings[i] = res)
StoreResult(slots, i, res) == [slots EXCEPT ![i] = res]

\* [out for out in final_res_batch if out is not None]
RECURSIVE NotNone(_)
NotNone(slots) ==
    IF slots = <<>> THEN <<>>
    ELSE IF Head(slots) = NoOutput THEN NotNone(Tail(slots))
         ELSE <<Head(slots)>> \o NotNone(Tail(slots))

\* _cosine_similarity of the embeddings: one output per pair, in pair order
CosineBatch(req) ==
    [j \in 1..Len(AsList(req.data_2)) |-> [item |-> j, score |-> req.scores[j]]]

\* request_output_to_rerank_response or request_output_to_score_response
ToResponse(req, final_res_batch) ==
    IF req.kind = "rerank"
    THEN request_output_to_rerank_response(
             final_res_batch, req.data_2, RerankTopN(req))
    ELSE request_output_to_score_response(final_res_batch)

Raise(exc) ==
    /\ response' = HandleException(exc)
    /\ coro' = [coro EXCEPT !.pc = "done", !.exc = exc]

\* _run_scoring up to merge_async_iterators: it raises, returns the error
\* response of a failed verification, or has issued the encode calls.
Schedule ==
    /\ coro.pc = "start"
    /\ IF RaisesValueError(scoreReq)
       THEN /\ Raise(Exc("ValueError", "MultiModalParam is not supported"))
            /\ UNCHANGED encodeCalls
       ELSE IF ~scoreReq.verify_ok
       THEN /\ response' = create_error_response("pooling_params.verify")
            /\ coro' = [coro EXCEPT !.pc = "done"]
            /\ UNCHANGED encodeCalls
       ELSE /\ encodeCalls' = EncodeLoop(scoreReq)
            /\ coro' = [coro EXCEPT
                          !.pc = "streaming",
                          !.open = 1..Len(EnginePrompts(scoreReq)),
                          !.slots = [i \in 1..Len(EnginePrompts(scoreReq))
                                        |-> NoOutput]]
            /\ UNCHANGED response
    /\ UNCHANGED <<scoreReq, factoryVars>>

\* One iteration of the async for: stream i has yielded an output.
Yield(i) ==
    /\ coro.pc = "streaming"
    /\ i \in coro.open
    /\ coro' = [coro EXCEPT
                  !.slots = StoreResult(coro.slots, i, Output(scoreReq, i))]
    /\ UNCHANGED <<scoreReq, encodeCalls, response, factoryVars>>

\* Stream i has ended, with or without having yielded.
Close(i) ==
    /\ coro.pc = "streaming"
    /\ i \in coro.open
    /\ coro' = [coro EXCEPT !.open = coro.open \ {i}]
    /\ UNCHANGED <<scoreReq, encodeCalls, response, factoryVars>>

\* The merged iterator is exhausted.  _cross_encoding_score returns the
\* slots that are not None; _embedding_score asserts that none is None and
\* returns the similarities.
Finish ==
    /\ coro.pc = "streaming"
    /\ coro.open = {}
    /\ IF scoreReq.is_cross_encoder
       THEN /\ coro' = [coro EXCEPT !.pc = "done", !.returned = TRUE,
                                    !.out = NotNone(coro.slots)]
            /\ response' = ToResponse(scoreReq, NotNone(coro.slots))
       ELSE IF \E i \in 1..Len(coro.slots) : coro.slots[i] = NoOutput
       THEN Raise(Exc("AssertionError", None))
       ELSE /\ coro' = [coro EXCEPT !.pc = "done", !.returned = TRUE,
                                    !.out = CosineBatch(scoreReq)]
            /\ response' = ToResponse(scoreReq, CosineBatch(scoreReq))
    /\ UNCHANGED <<scoreReq, encodeCalls, factoryVars>>

\* The client disconnects: asyncio.CancelledError is raised at the await
\* the coroutine is suspended at.
Cancel ==
    /\ coro.pc \in {"start", "streaming"}
    /\ Raise(Exc("CancelledError", None))
    /\ UNCHANGED <<scoreReq, encodeCalls, factoryVars>>

\* The requests followed step by step: one request id, one priority, one
\* score per pair, at most MaxStreams engine prompts.
AsyncRequests ==
    { r \in RerankRequests \cup ScoreRequests :
        /\ ValidLens(r)
        /\ r.base = <<"a">>
        /\ r.priority = 0
        /\ r.top_n = 0
        /\ r.scores = [i \in 1..MaxDocs |->
                          IF i <= Len(AsList(r.data_2)) /\ i % 2 = 1
                          THEN 2 ELSE 1]
        /\ Len(EnginePrompts(r)) <= MaxStreams }

AsyncInit ==
    /\ FactoryInit
    /\ useV1 = TRUE
    /\ scoreReq \in AsyncRequests
    /\ encodeCalls = <<>>
    /\ response = NoResponse
    /\ coro = [NoCoro EXCEPT !.pc = "start"]

Yields == \E i \in 1..MaxStreams : Yield(i)
Closes == \E i \in 1..MaxStreams : Close(i)

AsyncNext == Schedule \/ Yields \/ Closes \/ Finish \/ Cancel

AsyncSpec == AsyncInit /\ [][AsyncNext]_vars

(***************************************************************************)
(* Properties of the scoring coroutine, checked under AsyncSpec.           *)
(***************************************************************************)
AllYielded == \A i \in 1..Len(coro.slots) : coro.slots[i] # NoOutput

\* C12 as claimed: whatever the order in which the streams yield, slot i
\* holds the output of stream i; when every stream has yielded, the list
\* returned has the result of the i-th input at position i; and when some
\* stream has yielded nothing, no list is returned in which the result of a
\* later item stands at the position of an earlier one.
C12_PositionalResults ==
    /\ \A i \in 1..Len(coro.slots) :
           coro.slots[i] # NoOutput => coro.slots[i].item = i
    /\ coro.returned =>
          /\ AllYielded => Len(coro.out) = Len(AsList(scoreReq.data_2))
          /\ \A k \in 1..Len(coro.out) : coro.out[k].item = k

\* C13: once create_score / do_rerank is done, a cancellation raised during
\* scoring has been answered with the error response "Client disconnected",
\* a ValueError raised by scoring with an error response carrying its
\* message, and in neither case has an exception escaped or a score /
\* rerank result been returned.
C13_ErrorsReturned ==
    coro.pc = "done" =>
        /\ coro.exc.type = "CancelledError" =>
               response = [type |-> "error", message |-> "Client disconnected"]
        /\ coro.exc.type = "ValueError" =>
               response = [type |-> "error", message |-> coro.exc.msg]
        /\ (RaisesValueError(scoreReq) /\ coro.exc.type # "CancelledError") =>
               response = [type |-> "error",
                           message |-> "MultiModalParam is not supported"]
        /\ coro.exc.type \in {"CancelledError", "ValueError"} =>
               response.type \notin {"score", "rerank", "raised"}

\* C13 witness: the request was cancelled while the streams were yielding,
\* one having yielded and one still open, and was answered with the error
\* response.
C13_Witness ==
    /\ coro.pc = "done"
    /\ coro.exc.type = "CancelledError"
    /\ \E i \in 1..Len(coro.slots) : coro.slots[i] # NoOutput
    /\ coro.open # {}
    /\ response.type = "error"
    /\ response.message = "Client disconnected"

====
